---- MODULE Spec2Model ----
(***************************************************************************)
(* Model of chat/rust/server/src/main.rs: one worker thread per accepted   *)
(* connection (handle_stream) feeding the mpsc channel, and the single     *)
(* coordinator (main + ChatServer::handle_msg / handle_chat_msg).          *)
(*                                                                         *)
(* Texts are sequences of one-character strings, Option<T> is a sequence   *)
(* of length 0 (None) or 1 (Some).  Socket reads follow the POSIX/Linux    *)
(* behaviour of read(2) that std::net::TcpStream::read passes through:     *)
(* queued data first; Ok(0) once the peer has sent FIN or the read side    *)
(* was shut down locally; a pending reset is reported once as Err and      *)
(* then the socket reads Ok(0).                                            *)
(***************************************************************************)
EXTENDS Naturals, Sequences, FiniteSets, TLC

\* ---------------------------------------------------------------- bounds
NumAddrs == 3
MaxFrames == 2
MaxDrops == 1
MaxChan == 2
MaxScalar == 6
MaxLen == 3
MaxRead == 3

Addrs == 1..NumAddrs

\* ------------------------------------------------------- Option and text
None == <<>>
Some(x) == <<x>>

IsWs(c) == c \in {" ", "\n", "\t"}

RECURSIVE TrimStart(_)
TrimStart(s) ==
    IF s # <<>> /\ IsWs(Head(s)) THEN TrimStart(Tail(s)) ELSE s

RECURSIVE TrimEnd(_)
TrimEnd(s) ==
    IF s # <<>> /\ IsWs(s[Len(s)]) THEN TrimEnd(SubSeq(s, 1, Len(s) - 1)) ELSE s

\* str::trim
Trim(s) == TrimEnd(TrimStart(s))

StartsWithSlash(msg) == msg # <<>> /\ Head(msg) = "/"

CmdQuit == <<"/", "q", "u", "i", "t">>
CmdList == <<"/", "l", "i", "s", "t">>
CmdHelp == <<"/", "h", "e", "l", "p">>

\* -------------------------------------------- server-originated literals
Prompt == "Enter username: "
TakenReply == "Username taken!\nEnter username: "
ListReply == "Invalid command. Type /help for help.\n"
InvalidReply == "Invalid command! Type /help for help.\n"
HelpText == "\n                    /quit - quit the chat\n                    /list - list usernames\n                    /help - show this help message"

\* What one Client::send carries: a literal reply or a chat line.
Lit(s) == [lit |-> s, text |-> <<>>]
Line(t) == [lit |-> "", text |-> t]

\* --------------------------------------------------------------- frames
\* A frame read from the socket, by its decrypted content: bytes that are
\* valid UTF-8 (utf8, text) or bytes that are not.
Frame(t) == [utf8 |-> TRUE, text |-> t]
BadFrame == [utf8 |-> FALSE, text |-> <<>>]

\* The text the all-zero buffer decrypts to when it happens to be UTF-8.
ZeroGarbage == <<"#">>

Frames ==
    { Frame(<<"a">>), Frame(<<"h", "i", " ">>), Frame(<<" ">>),
      Frame(CmdQuit), Frame(CmdList), Frame(CmdHelp), Frame(<<"/", "x">>),
      BadFrame }

\* EncryptedStream::recv after a successful read: from_utf8(..).ok().map(trim)
Decode(f) == IF f.utf8 THEN Some(Trim(f.text)) ELSE None

\* Results of EncryptedStream::recv: Err(_) or Ok(Option<String>)
RecvErr == [err |-> TRUE, txt |-> None]
RecvOk(opt) == [err |-> FALSE, txt |-> opt]

\* --------------------------------------------------------------- events
Connected(a) == [addr |-> a, kind |-> "Connected", text |-> <<>>]
Disconnected(a) == [addr |-> a, kind |-> "Disconnected", text |-> <<>>]
Text(a, t) == [addr |-> a, kind |-> "Text", text |-> t]

NoEvent == [addr |-> 0, kind |-> "none", text |-> <<>>]

NoCall == [fn |-> "none", in |-> <<>>, out |-> <<>>]

VARIABLES
    wpc,        \* worker position: "none", "loop" (in recv), "continue", "aborted"
    sock,       \* read side of the server socket: "open", "eof", "rst"
    peerUp,     \* the client still holds its end of the connection open
    zeroKind,   \* what recv() makes of an all-zero buffer under this
                \* connection's key: "unknown" until first read, "invalid", "text"
    nframes,    \* frames read from clients so far
    chan,       \* the mpsc channel
    clients,    \* ChatServer.clients: address -> username (Option)
    crashed,    \* the coordinator thread panicked
    last,       \* the event the coordinator handled last
    prev,       \* ChatServer.clients before that event
    sent,       \* the Client::send calls of that handling, in order
    quitPending,\* /quit handled, the address's Disconnected not yet handled
    wlog,       \* per address, what its worker has emitted so far
    ndrops,     \* connections closed or reset by clients so far
    call        \* the call of establish or of send/recv evaluated last, with
                \* its inputs and its result (used by FnSpec only)

vars == <<wpc, sock, peerUp, zeroKind, nframes, chan, clients,
          crashed, last, prev, sent, quitPending, wlog, ndrops, call>>

coordVars == <<clients, crashed, last, prev, sent, quitPending>>

Init ==
    /\ wpc = [a \in Addrs |-> "none"]
    /\ sock = [a \in Addrs |-> "open"]
    /\ peerUp = [a \in Addrs |-> FALSE]
    /\ zeroKind = [a \in Addrs |-> "unknown"]
    /\ nframes = 0
    /\ chan = <<>>
    /\ clients = <<>>
    /\ crashed = FALSE
    /\ last = NoEvent
    /\ prev = <<>>
    /\ sent = <<>>
    /\ quitPending = [a \in Addrs |-> FALSE]
    /\ wlog = [a \in Addrs |-> "none"]
    /\ ndrops = 0
    /\ call = NoCall

\* ------------------------------------------------------------ the registry
\* HashMap::insert / HashMap::remove on ChatServer.clients
Insert(cl, a, v) == [x \in (DOMAIN cl) \cup {a} |-> IF x = a THEN v ELSE cl[x]]
\* A removal that spares a client still without a username
RemoveNamed(cl, a) ==
    IF a \in DOMAIN cl /\ cl[a] # None THEN [x \in (DOMAIN cl) \ {a} |-> cl[x]] ELSE cl

Remove(cl, a) == [x \in (DOMAIN cl) \ {a} |-> cl[x]]
\* An assignment of the username that misses the test of the address:
\* every client still without a username gets it
SetNameEverywhere(cl, a, v) == [x \in DOMAIN cl |-> IF cl[x] = None THEN v ELSE cl[x]]

SetName(cl, a, v) == [cl EXCEPT ![a] = v]

\* One Client::send: the recipient, what was written, whether the write succeeded.
Attempt(a, m, ok) == [to |-> a, msg |-> m, ok |-> ok]

\* is_unique without the search: every proposal passes
IsUniqueUnchecked(cl, txt) == TRUE

\* is_unique: no registered client holds Some(txt)
IsUnique(cl, txt) == ~ \E c \in DOMAIN cl : cl[c] = Some(txt)

\* The replies with /list answered like any unknown command
CommandReplyUnified(msg) ==
    IF msg = CmdHelp THEN HelpText ELSE InvalidReply

\* The reply of a slash command other than /quit
CommandReply(msg) ==
    IF msg = CmdList THEN ListReply
    ELSE IF msg = CmdHelp THEN HelpText
    ELSE InvalidReply

\* format!("{}: {}", uname, msg)
ChatLine(uname, msg) == uname \o <<":", " ">> \o msg

\* The broadcast loop without its test of the address: the sender too
RecipientsWithSender(cl, addr) == DOMAIN cl

\* The clients the broadcast loop writes to: client_addr != &addr
Recipients(cl, addr) == {c \in DOMAIN cl : c # addr}

\* The orders in which HashMap::iter_mut may visit a set of clients
Orders(S) ==
    {o \in [1..Cardinality(S) -> S] : \A i, j \in 1..Cardinality(S) : o[i] = o[j] => i = j}

\* The broadcast loop leaving at the first failed write, as it would
\* were the write's error propagated with `?`
SendUntilFailure(order, m, ok) ==
    LET n == IF \E i \in 1..Len(order) : ~ ok[order[i]]
             THEN CHOOSE i \in 1..Len(order) :
                    /\ ~ ok[order[i]]
                    /\ \A j \in 1..(i - 1) : ok[order[j]]
             ELSE Len(order)
    IN [i \in 1..n |-> Attempt(order[i], m, ok[order[i]])]

\* The broadcast loop: Client::send swallows a failed write, the loop goes on
SendAll(order, m, ok) == [i \in 1..Len(order) |-> Attempt(order[i], m, ok[order[i]])]

\* What one handling does: the registry afterwards, the sends made, the
\* sockets whose read side was shut down, whether the coordinator panicked.
Outcome(cl, s, sh, p) == [clients |-> cl, sent |-> s, shut |-> sh, panic |-> p]

\* handle_chat_msg without its test for the empty message
IsEmptyNever(msg) == FALSE

\* msg.len() == 0
IsEmpty(msg) == Len(msg) = 0

\* /quit removing the session at once
AfterQuitRemoves(cl, addr) == Remove(cl, addr)

\* The registry after /quit was handled for addr: close() touches the socket only
AfterQuit(cl, addr) == cl

\* ChatServer::handle_chat_msg
HandleChatMsg(cl, addr, msg, order, ok) ==
    IF IsEmpty(msg) THEN Outcome(cl, <<>>, {}, FALSE)
    ELSE IF StartsWithSlash(msg) THEN
        IF msg = CmdQuit THEN Outcome(AfterQuit(cl, addr), <<>>, {addr}, FALSE)
        ELSE Outcome(cl, <<Attempt(addr, Lit(CommandReply(msg)), ok[addr])>>, {}, FALSE)
    ELSE Outcome(cl, SendAll(order, Line(ChatLine(cl[addr][1], msg)), ok), {}, FALSE)

\* The Text arm of handle_msg for a client without a username
Negotiate(cl, addr, txt, ok) ==
    IF ~ IsUnique(cl, txt)
    THEN Outcome(cl, <<Attempt(addr, Lit(TakenReply), ok[addr])>>, {}, FALSE)
    ELSE Outcome(SetName(cl, addr, Some(txt)), <<>>, {}, FALSE)

\* The Connected arm registering the client only when the prompt was written
OnConnectedChecked(cl, addr, ok) ==
    Outcome(IF ok[addr] THEN Insert(cl, addr, None) ELSE cl,
            <<Attempt(addr, Lit(Prompt), ok[addr])>>, {}, FALSE)

\* The Connected arm of handle_msg: insert, then client.send of the prompt
OnConnected(cl, addr, ok) ==
    Outcome(Insert(cl, addr, None), <<Attempt(addr, Lit(Prompt), ok[addr])>>, {}, FALSE)

\* handle_msg looking for a command before it looks at the username
HandleMsgCommandsFirst(cl, ev, order, ok) ==
    IF ev.kind = "Connected" THEN OnConnected(cl, ev.addr, ok)
    ELSE IF ev.kind = "Disconnected" THEN
        Outcome(Remove(cl, ev.addr), <<>>, {}, FALSE)
    ELSE IF ev.addr \notin DOMAIN cl THEN
        Outcome(cl, <<>>, {}, TRUE)
    ELSE IF cl[ev.addr] = None /\ ~ StartsWithSlash(ev.text)
        THEN Negotiate(cl, ev.addr, ev.text, ok)
    ELSE HandleChatMsg(cl, ev.addr, ev.text, order, ok)

\* ChatServer::handle_msg
HandleMsg(cl, ev, order, ok) ==
    IF ev.kind = "Connected" THEN OnConnected(cl, ev.addr, ok)
    ELSE IF ev.kind = "Disconnected" THEN
        Outcome(Remove(cl, ev.addr), <<>>, {}, FALSE)
    ELSE IF ev.addr \notin DOMAIN cl THEN
        Outcome(cl, <<>>, {}, TRUE)
    ELSE IF cl[ev.addr] = None THEN Negotiate(cl, ev.addr, ev.text, ok)
    ELSE HandleChatMsg(cl, ev.addr, ev.text, order, ok)

\* ------------------------------------------------------------- the sockets
\* The results a write to each client can have: it succeeds while the peer
\* holds the connection; afterwards it may succeed (buffered) or fail.
WriteOutcomes(T) ==
    {[a \in Addrs |-> a \notin F] : F \in SUBSET {a \in T : wpc[a] \in {"loop", "continue"} /\ ~ peerUp[a]}}

\* The clients one handling writes to when no write fails
Written(cl, ev, order) ==
    LET s == HandleMsg(cl, ev, order, [a \in Addrs |-> TRUE]).sent
    IN {s[i].to : i \in 1..Len(s)}

\* ------------------------------------------------------------ ghost logs
\* What a worker has emitted: an event after its Disconnected is "late".
LogEmit(l, kind) ==
    IF l \in {"disconnected", "late"} THEN "late"
    ELSE IF kind = "Connected" THEN "connected"
    ELSE IF kind = "Disconnected" THEN "disconnected"
    ELSE l

\* ------------------------------------------------------------- establish
\* The width of the buffer establish reads the peer's public value into
KeyWidth == 16

\* std::io::Result<usize> of one socket.write or socket.read: Err, or Ok(n)
\* with n the number of bytes transferred
IoErr == [err |-> TRUE, n |-> 0]
IoOk(n) == [err |-> FALSE, n |-> n]
IoResults == {IoErr} \cup {IoOk(n) : n \in 0..KeyWidth}

\* Result<EncryptedStream>: Err, or a channel whose key was made of the
\* buffer holding the first `got` bytes of the peer's public value (the
\* rest of the buffer is still zero) after `put` bytes of ours were written
EstablishErr == [ok |-> FALSE, put |-> 0, got |-> 0]
EstablishOk(put, got) == [ok |-> TRUE, put |-> put, got |-> got]

\* EncryptedStream::establish, given the results of its write and its read:
\* `?` returns on Err, the byte counts of Ok are dropped
EstablishResult(w, r) ==
    IF w.err THEN EstablishErr
    ELSE IF r.err THEN EstablishErr
    ELSE EstablishOk(w.n, r.n)

\* Connected sent as soon as the channel is established, before try_clone
EmitsConnectedEarly(pa, w, r, tc) == pa /\ EstablishResult(w, r).ok

\* handle_stream sends Connected: peer_addr()?, establish(..)? and
\* try_clone()? have all returned Ok
EmitsConnected(pa, w, r, tc) == pa /\ EstablishResult(w, r).ok /\ tc

\* handle_stream enters its loop: the same three calls have returned Ok
ReachesLoop(pa, w, r, tc) == pa /\ EstablishResult(w, r).ok /\ tc

\* The ways the start of handle_stream can go, over every result of
\* peer_addr (pa), try_clone (tc) and the write and read of establish
StartOutcomes ==
    { [emits |-> EmitsConnected(pa, w, r, tc), loops |-> ReachesLoop(pa, w, r, tc)] :
        pa \in BOOLEAN, tc \in BOOLEAN, w \in IoResults, r \in IoResults }

\* ---------------------------------------------------------------- worker
\* A client connects, its worker is spawned, and handle_stream sends
\* Connected
Establish(a) ==
    /\ ~ crashed
    /\ wpc[a] = "none"
    /\ Len(chan) < MaxChan
    /\ \E o \in StartOutcomes :
        /\ o.emits
        /\ wpc' = [wpc EXCEPT ![a] = IF o.loops THEN "loop" ELSE "aborted"]
    /\ chan' = Append(chan, Connected(a))
    /\ wlog' = [wlog EXCEPT ![a] = LogEmit(@, "Connected")]
    /\ peerUp' = [peerUp EXCEPT ![a] = TRUE]
    /\ UNCHANGED <<sock, zeroKind, nframes, ndrops>>
    /\ UNCHANGED <<coordVars, call>>

\* A client connects and peer_addr, establish or try_clone fails: the
\* worker returns the error
EstablishFails(a) ==
    /\ ~ crashed
    /\ wpc[a] = "none"
    /\ \E o \in StartOutcomes : ~ o.emits /\ ~ o.loops
    /\ wpc' = [wpc EXCEPT ![a] = "aborted"]
    /\ UNCHANGED <<sock, peerUp, zeroKind, nframes, wlog, chan, ndrops>>
    /\ UNCHANGED <<coordVars, call>>

\* The loop body treating an undecodable frame as a failed read
EventOfDecodeError(a, r) ==
    IF r.err \/ r.txt = None THEN Some(Disconnected(a))
    ELSE Some(Text(a, r.txt[1]))

\* The event the loop body makes of a recv result; None for `continue`
EventOf(a, r) ==
    IF r.err THEN Some(Disconnected(a))
    ELSE IF r.txt # None THEN Some(Text(a, r.txt[1]))
    ELSE None

\* One round of the loop of handle_stream, given what recv() returned: the
\* match, channel.send, and back to recv
LoopRound(a, r) ==
    /\ LET e == EventOf(a, r) IN
        IF e = None
        THEN /\ wpc' = [wpc EXCEPT ![a] = "continue"]
             /\ UNCHANGED <<chan, wlog>>
        ELSE /\ Len(chan) < MaxChan
             /\ chan' = Append(chan, e[1])
             /\ wlog' = [wlog EXCEPT ![a] = LogEmit(@, e[1].kind)]
             /\ wpc' = wpc
    /\ UNCHANGED <<peerUp, ndrops>>
    /\ UNCHANGED <<coordVars, call>>

\* the ignored arm of the match: `continue`, back to recv
Continue(a) ==
    /\ ~ crashed
    /\ wpc[a] = "continue"
    /\ wpc' = [wpc EXCEPT ![a] = "loop"]
    /\ UNCHANGED <<sock, peerUp, zeroKind, nframes, wlog, chan, ndrops>>
    /\ UNCHANGED <<coordVars, call>>

\* recv() reads a frame the client has written
WorkerFrame(a, f) ==
    /\ ~ crashed
    /\ wpc[a] = "loop"
    /\ peerUp[a]
    /\ nframes < MaxFrames
    /\ nframes' = nframes + 1
    /\ LoopRound(a, RecvOk(Decode(f)))
    /\ UNCHANGED <<sock, zeroKind>>

\* recv() at end of stream: read returns Ok(0), the buffer stays all zero,
\* and recv() decrypts and decodes it like any frame
WorkerEof(a) ==
    /\ ~ crashed
    /\ wpc[a] = "loop"
    /\ sock[a] = "eof"
    /\ \E z \in (IF zeroKind[a] = "unknown" THEN {"invalid", "text"} ELSE {zeroKind[a]}) :
        /\ zeroKind' = [zeroKind EXCEPT ![a] = z]
        /\ LoopRound(a, RecvOk(IF z = "text" THEN Some(ZeroGarbage) ELSE None))
    /\ UNCHANGED <<sock, nframes>>

\* recv() on a reset connection: read returns Err; the error is reported
\* once and the socket reads end of stream from then on
WorkerErr(a) ==
    /\ ~ crashed
    /\ wpc[a] = "loop"
    /\ sock[a] = "rst"
    /\ sock' = [sock EXCEPT ![a] = "eof"]
    /\ LoopRound(a, RecvErr)
    /\ UNCHANGED <<zeroKind, nframes>>

\* ----------------------------------------------------------- the clients
\* a client closes its socket: the server reads end of stream
ClientClose(a) ==
    /\ ~ crashed
    /\ peerUp[a]
    /\ ndrops < MaxDrops
    /\ ndrops' = ndrops + 1
    /\ peerUp' = [peerUp EXCEPT ![a] = FALSE]
    /\ sock' = [sock EXCEPT ![a] = IF @ = "open" THEN "eof" ELSE @]
    /\ UNCHANGED <<wpc, zeroKind, nframes, wlog, chan>>
    /\ UNCHANGED <<coordVars, call>>

\* a client's connection is reset: the server's next read on it fails
ClientReset(a) ==
    /\ ~ crashed
    /\ peerUp[a]
    /\ ndrops < MaxDrops
    /\ ndrops' = ndrops + 1
    /\ peerUp' = [peerUp EXCEPT ![a] = FALSE]
    /\ sock' = [sock EXCEPT ![a] = "rst"]
    /\ UNCHANGED <<wpc, zeroKind, nframes, wlog, chan>>
    /\ UNCHANGED <<coordVars, call>>

\* ----------------------------------------------------------- coordinator
\* server.handle_msg(addr, msg) for one event, with what it does to the
\* registry and to the sockets
Handle(ev) ==
    \E order \in Orders(Recipients(clients, ev.addr)) :
    \E ok \in WriteOutcomes(Written(clients, ev, order)) :
        LET r == HandleMsg(clients, ev, order, ok) IN
            /\ clients' = r.clients
            /\ sent' = r.sent
            /\ crashed' = r.panic
            /\ sock' = [a \in Addrs |->
                          IF a \in r.shut /\ sock[a] = "open" THEN "eof" ELSE sock[a]]
            /\ quitPending' = [a \in Addrs |->
                          IF a \in r.shut THEN TRUE
                          ELSE IF ev.kind = "Disconnected" /\ a = ev.addr THEN FALSE
                          ELSE quitPending[a]]
            /\ last' = ev
            /\ prev' = clients

\* main: recv.recv() and server.handle_msg(addr, msg)
Coordinator ==
    /\ ~ crashed
    /\ chan # <<>>
    /\ Handle(Head(chan))
    /\ chan' = Tail(chan)
    /\ UNCHANGED <<wpc, peerUp, zeroKind, nframes, wlog, ndrops, call>>

Next ==
    \/ \E a \in Addrs : Establish(a)
    \/ \E a \in Addrs : EstablishFails(a)
    \/ \E a \in Addrs : \E f \in Frames : WorkerFrame(a, f)
    \/ \E a \in Addrs : WorkerEof(a)
    \/ \E a \in Addrs : WorkerErr(a)
    \/ \E a \in Addrs : Continue(a)
    \/ \E a \in Addrs : ClientClose(a)
    \/ \E a \in Addrs : ClientReset(a)
    \/ Coordinator

Spec == Init /\ [][Next]_vars

\* The threads are scheduled fairly: a worker whose read has returned, and
\* the coordinator when the channel holds an event, eventually take their
\* step.  The clients owe nothing: no frame, close or reset has to come.
Fairness ==
    /\ WF_vars(Coordinator)
    /\ \A a \in Addrs : WF_vars(WorkerEof(a))
    /\ \A a \in Addrs : WF_vars(WorkerErr(a))
    /\ \A a \in Addrs : WF_vars(Continue(a))

FairSpec == Spec /\ Fairness

\* ------------------------------------------ the coordinator on any events
\* handle_msg as a function of the registry and one event, applied to every
\* sequence of events that meets its precondition: an address connects
\* once, its Text events come while it is registered (the `expect` of the
\* Text arm), and its Disconnected may come more than once, as it does when
\* the read of a worker fails again after the first failure.  The workers
\* are in their loops and the peers are not followed, so every write may
\* succeed or fail; wlog records the events handed to handle_msg.
\* The texts fed: a name, a chat text with the space recv trims, the empty
\* text and a command, as recv decodes them.
Texts == {Decode(f)[1] : f \in {Frame(<<"a">>), Frame(<<"h", "i", " ">>), Frame(<<" ">>), Frame(CmdQuit)}}

CoordInit ==
    /\ wpc = [a \in Addrs |-> "loop"]
    /\ sock = [a \in Addrs |-> "open"]
    /\ peerUp = [a \in Addrs |-> FALSE]
    /\ zeroKind = [a \in Addrs |-> "unknown"]
    /\ nframes = 0
    /\ chan = <<>>
    /\ clients = <<>>
    /\ crashed = FALSE
    /\ last = NoEvent
    /\ prev = <<>>
    /\ sent = <<>>
    /\ quitPending = [a \in Addrs |-> FALSE]
    /\ wlog = [a \in Addrs |-> "none"]
    /\ ndrops = 0
    /\ call = NoCall

FeedConnected(a) ==
    /\ ~ crashed
    /\ wlog[a] = "none"
    /\ Handle(Connected(a))
    /\ wlog' = [wlog EXCEPT ![a] = LogEmit(@, "Connected")]
    /\ UNCHANGED <<wpc, peerUp, zeroKind, nframes, chan, ndrops, call>>

FeedText(a, t) ==
    /\ ~ crashed
    /\ a \in DOMAIN clients
    /\ Handle(Text(a, t))
    /\ UNCHANGED <<wpc, wlog, peerUp, zeroKind, nframes, chan, ndrops, call>>

FeedDisconnected(a) ==
    /\ ~ crashed
    /\ wlog[a] # "none"
    /\ Handle(Disconnected(a))
    /\ wlog' = [wlog EXCEPT ![a] = LogEmit(@, "Disconnected")]
    /\ UNCHANGED <<wpc, peerUp, zeroKind, nframes, chan, ndrops, call>>

CoordNext ==
    \/ \E a \in Addrs : FeedConnected(a)
    \/ \E a \in Addrs : \E t \in Texts : FeedText(a, t)
    \/ \E a \in Addrs : FeedDisconnected(a)

CoordSpec == CoordInit /\ [][CoordNext]_vars

\* ---------------------------------------------------- the key exchange
\* crypto_utils::PrimeDiffieHellman is not part of this source tree: the
\* exchange is the one the specification describes, over a small group.
PrimeP == 23
GenG == 5

Scalars == 1..MaxScalar

RECURSIVE ModExp(_, _, _)
ModExp(b, e, m) == IF e = 0 THEN 1 % m ELSE (b * ModExp(b, e - 1, m)) % m

\* generate_keys for a private scalar: (priv_key, pubkey)
GenerateKeys(x) == [priv |-> x, pub |-> ModExp(GenG, x, PrimeP)]

\* a secret made by multiplying where the exchange exponentiates
HandshakeProduct(priv, otherPub) == (otherPub * priv) % PrimeP

\* handshake: the peer's public value raised to the own private scalar
HandshakeSecret(priv, otherPub) == ModExp(otherPub, priv, PrimeP)

Secrets == {HandshakeSecret(x, GenerateKeys(y).pub) : x, y \in Scalars}

\* ------------------------------------------------------------ the frames
\* The cipher is crypto_utils' too: a deterministic symmetric transform keyed
\* by the secret, here a rotation of each character within the alphabet.
Alphabet == <<" ", "a", "/", "q", "\n">>

CodeOf(c) == CHOOSE i \in 1..Len(Alphabet) : Alphabet[i] = c

Encrypt(k, msg) ==
    [i \in 1..Len(msg) |-> Alphabet[((CodeOf(msg[i]) - 1 + k) % Len(Alphabet)) + 1]]

Decrypt(k, raw) ==
    [i \in 1..Len(raw) |->
        Alphabet[((CodeOf(raw[i]) - 1 + Len(Alphabet) - (k % Len(Alphabet))) % Len(Alphabet)) + 1]]

\* The width of the buffer receive_raw reads a frame into
FrameWidth == 16

\* receive_raw: one read takes at most FrameWidth bytes of what was written
ReceiveRaw(wire) == SubSeq(wire, 1, IF Len(wire) < FrameWidth THEN Len(wire) ELSE FrameWidth)

\* EncryptedStream::send followed by EncryptedStream::recv on a channel
\* holding the same secret: encrypt, write; read, decrypt, from_utf8, trim
SendRecv(k, msg) == Some(Trim(Decrypt(k, ReceiveRaw(Encrypt(k, msg)))))

Payloads ==
    UNION {[1..n -> {Alphabet[i] : i \in 1..Len(Alphabet)}] : n \in 0..MaxLen}

\* --------------------------------------------- the channel's pure functions
\* establish, the exchange and the frame round trip, each applied to every
\* input within the bounds, one call in a behaviour; the server itself does
\* not move.
serverVars == <<wpc, sock, peerUp, zeroKind, nframes, chan, wlog, ndrops, coordVars>>

CallEstablish(w, r) ==
    /\ call = NoCall
    /\ call' = [fn |-> "establish", in |-> <<w, r>>, out |-> EstablishResult(w, r)]
    /\ UNCHANGED serverVars

\* x: the server's private scalar, y: the client's
CallHandshake(x, y) ==
    /\ call = NoCall
    /\ call' = [fn |-> "handshake", in |-> <<x, y>>,
                out |-> <<HandshakeSecret(x, GenerateKeys(y).pub),
                          HandshakeSecret(y, GenerateKeys(x).pub)>>]
    /\ UNCHANGED serverVars

CallSendRecv(k, msg) ==
    /\ call = NoCall
    /\ Len(msg) <= FrameWidth
    /\ call' = [fn |-> "sendrecv", in |-> <<k, msg>>, out |-> SendRecv(k, msg)]
    /\ UNCHANGED serverVars

\* The events the loop of handle_stream sends when its reads return the
\* frames fs one after the other: recv, the match, channel.send, and again
RECURSIVE Emitted(_, _)
Emitted(a, fs) ==
    IF fs = <<>> THEN <<>>
    ELSE LET e == EventOf(a, RecvOk(Decode(Head(fs))))
         IN (IF e = None THEN <<>> ELSE <<e[1]>>) \o Emitted(a, Tail(fs))

FrameSeqs == UNION {[1..n -> Frames] : n \in 0..MaxRead}

CallLoop(a, fs) ==
    /\ call = NoCall
    /\ call' = [fn |-> "loop", in |-> <<a, fs>>, out |-> Emitted(a, fs)]
    /\ UNCHANGED serverVars

FnNext ==
    \/ \E a \in Addrs : \E fs \in FrameSeqs : CallLoop(a, fs)
    \/ \E w, r \in IoResults : CallEstablish(w, r)
    \/ \E x, y \in Scalars : CallHandshake(x, y)
    \/ \E k \in Secrets : \E msg \in Payloads : CallSendRecv(k, msg)

FnSpec == Init /\ [][FnNext]_vars

\* ------------------------------------------------- what the coordinator did
\* The coordinator has just handled a Text event of a registered session.
TextFromRegistered == last.kind = "Text" /\ last.addr \in DOMAIN prev
TextFromUnnamed == TextFromRegistered /\ prev[last.addr] = <<>>
TextFromNamed == TextFromRegistered /\ prev[last.addr] # <<>>

\* ... of a Named session, and the text is chat: not empty, no leading '/'.
ChatFromNamed == TextFromNamed /\ last.text # <<>> /\ Head(last.text) # "/"

\* ... of a Named session, and the text is a slash command other than /quit.
CommandFromNamed ==
    /\ TextFromNamed
    /\ last.text # <<>>
    /\ Head(last.text) = "/"
    /\ last.text # <<"/", "q", "u", "i", "t">>

\* The clients written to in that handling.
SentTo == {sent[i].to : i \in 1..Len(sent)}

\* ---------------------------------------------------------------- claims
\* C1: the coordinator never observes a Text event for an address before
\* its Connected event or after its matching Disconnected event.  The
\* registry holds an address exactly from its Connected to its next
\* Disconnected, so the Text events the claim allows are those of
\* registered addresses.
C1_TextOnlyBetweenConnectedAndDisconnected ==
    last.kind = "Text" => last.addr \in DOMAIN prev

\* C2: a worker that has emitted Disconnected has left its read loop and
\* emits no event after it.
C2_WorkerStopsAtDisconnected ==
    \A a \in Addrs :
        wlog[a] \in {"disconnected", "late"}
            => wlog[a] # "late" /\ wpc[a] \notin {"loop", "continue"}

\* C3: once a registered session's peer has disconnected, the session is
\* eventually removed from the registry.
C3_PeerGoneLeadsToRemoval ==
    \A a \in Addrs :
        (a \in DOMAIN clients /\ ~ peerUp[a] /\ ~ crashed)
            ~> (a \notin DOMAIN clients \/ crashed)

\* C4: a username proposal equal to a username some registered session
\* holds is rejected: the registry is unchanged (the proposer stays Unnamed)
\* and the only message sent is "Username taken!\nEnter username: ", to
\* the proposer.
C4_TakenUsernameRejected ==
    (TextFromUnnamed /\ \E c \in DOMAIN prev : prev[c] = <<last.text>>)
        => /\ clients = prev
           /\ clients[last.addr] = <<>>
           /\ Len(sent) = 1
           /\ sent[1].to = last.addr
           /\ sent[1].msg = [lit |-> "Username taken!\nEnter username: ", text |-> <<>>]

C4_Witness ==
    /\ TextFromUnnamed
    /\ \E c \in DOMAIN prev : prev[c] = <<last.text>>
    /\ sent # <<>>

\* C5: chat from a Named session is sent as "{username}: {text}" exactly
\* once to every other registered session, Named or Unnamed, and not to
\* the sender.
C5_BroadcastOnceToOthers ==
    ChatFromNamed
        => /\ \A c \in (DOMAIN prev) \ {last.addr} :
                Cardinality({i \in 1..Len(sent) : sent[i].to = c}) = 1
           /\ \A i \in 1..Len(sent) :
                /\ sent[i].to \in (DOMAIN prev) \ {last.addr}
                /\ sent[i].msg = [lit |-> "",
                                  text |-> prev[last.addr][1] \o <<":", " ">> \o last.text]

C5_Witness ==
    /\ ChatFromNamed
    /\ \E c, d \in SentTo : prev[c] = <<>> /\ prev[d] # <<>>

\* C6: a failed write to one recipient of a broadcast does not abort it:
\* every other registered session is still written to, nothing reaches
\* the sender, the coordinator goes on and the registry is unchanged.
C6_BroadcastSurvivesFailedWrite ==
    (ChatFromNamed /\ \E i \in 1..Len(sent) : ~ sent[i].ok)
        => /\ SentTo = (DOMAIN prev) \ {last.addr}
           /\ clients = prev
           /\ ~ crashed

C6_Witness ==
    /\ ChatFromNamed
    /\ Len(sent) >= 2
    /\ ~ sent[1].ok

\* C7: after /quit from a Named session, the session is eventually removed
\* from the registry.
C7_QuitLeadsToRemoval ==
    \A a \in Addrs :
        (quitPending[a] /\ ~ crashed) ~> (a \notin DOMAIN clients \/ crashed)

\* C8: handling /quit leaves the registry as it was, and from then until
\* the address's Disconnected is handled the session stays registered and
\* is written to by every broadcast of another session.
C8_QuitKeepsSessionUntilDisconnected ==
    /\ (TextFromNamed /\ last.text = <<"/", "q", "u", "i", "t">>)
            => clients = prev /\ sent = <<>>
    /\ \A r \in Addrs :
        quitPending[r]
            => /\ r \in DOMAIN clients
               /\ (ChatFromNamed /\ last.addr # r) => r \in SentTo

C8_Witness ==
    \E r \in Addrs :
        /\ quitPending[r]
        /\ ChatFromNamed
        /\ last.addr # r
        /\ r \in SentTo

\* C9: a slash command other than /quit from a Named session gets exactly
\* one reply, to the sender only, and changes nothing: /help the help
\* text, /list "Invalid command. Type /help for help.\n", anything else
\* "Invalid command! Type /help for help.\n".
C9_CommandRepliesToSenderOnly ==
    CommandFromNamed
        => /\ clients = prev
           /\ Len(sent) = 1
           /\ sent[1].to = last.addr
           /\ sent[1].msg.text = <<>>
           /\ sent[1].msg.lit =
                IF last.text = <<"/", "h", "e", "l", "p">> THEN HelpText
                ELSE IF last.text = <<"/", "l", "i", "s", "t">>
                THEN "Invalid command. Type /help for help.\n"
                ELSE "Invalid command! Type /help for help.\n"

C9_Witness ==
    /\ CommandFromNamed
    /\ last.text = <<"/", "l", "i", "s", "t">>
    /\ sent # <<>>

\* C10, as claimed: an empty Text from a registered session, Named or
\* Unnamed, changes nothing and sends nothing.
C10_EmptyTextChangesNothing ==
    (TextFromRegistered /\ last.text = <<>>) => clients = prev /\ sent = <<>>

\* C10, amended: an empty Text from a Named session changes nothing and
\* sends nothing.
C10_EmptyTextFromNamedChangesNothing ==
    (TextFromNamed /\ last.text = <<>>) => clients = prev /\ sent = <<>>

C10_Witness ==
    /\ TextFromNamed
    /\ last.text = <<>>
    /\ Cardinality(DOMAIN prev) >= 2

\* C11: handling Disconnected removes the address's session whether it is
\* Named or Unnamed, leaves every other session as it was and sends
\* nothing; for an address that is not registered (never was, or was
\* removed by an earlier Disconnected) the registry stays as it is.
C11_DisconnectedRemovesIdempotently ==
    last.kind = "Disconnected" =>
        /\ DOMAIN clients = (DOMAIN prev) \ {last.addr}
        /\ \A c \in DOMAIN clients : clients[c] = prev[c]
        /\ sent = <<>>
        /\ (last.addr \notin DOMAIN prev => clients = prev)

\* a second Disconnected of an address was handled while another client
\* holds a username and a third has none
C11_Witness ==
    /\ last.kind = "Disconnected"
    /\ wlog[last.addr] = "late"
    /\ last.addr \notin DOMAIN prev
    /\ \E c \in DOMAIN clients : clients[c] # <<>>
    /\ \E c \in DOMAIN clients : clients[c] = <<>>

\* C12: handling Connected registers the address as an Unnamed session and
\* writes "Enter username: " to that client and to no other; the session is
\* registered whether or not the write succeeded, and no other session
\* changes.
C12_ConnectedInsertsAndPrompts ==
    last.kind = "Connected" =>
        /\ DOMAIN clients = (DOMAIN prev) \cup {last.addr}
        /\ clients[last.addr] = <<>>
        /\ \A c \in (DOMAIN prev) \ {last.addr} : clients[c] = prev[c]
        /\ Len(sent) = 1
        /\ sent[1].to = last.addr
        /\ sent[1].msg = [lit |-> "Enter username: ", text |-> <<>>]

\* a Connected was handled whose prompt could not be written, while
\* another client holds a username
C12_Witness ==
    /\ last.kind = "Connected"
    /\ Len(sent) = 1
    /\ ~ sent[1].ok
    /\ last.addr \in DOMAIN clients
    /\ \E c \in (DOMAIN clients) \ {last.addr} : clients[c] # <<>>

\* C13: a worker whose peer_addr, handshake or try_clone failed has
\* emitted no event, none of its events is in the channel and the registry
\* does not hold its address; a worker in its loop has emitted Connected;
\* and whenever a worker puts an event into the channel, the event is
\* Connected exactly when it is the first event of that worker.
C13_ConnectedFirstOrNothing ==
    /\ [](\A a \in Addrs :
            /\ wpc[a] = "aborted" =>
                    /\ wlog[a] = "none"
                    /\ a \notin DOMAIN clients
                    /\ \A i \in 1..Len(chan) : chan[i].addr # a
            /\ wpc[a] \in {"loop", "continue"} => wlog[a] # "none")
    /\ [][Len(chan') = Len(chan) + 1 =>
            LET e == chan'[Len(chan')]
            IN (e.kind = "Connected") <=> (wlog[e.addr] = "none")]_vars

\* one worker has aborted at its start while another's session is
\* registered after its Connected
C13_Witness ==
    \E a, b \in Addrs :
        /\ wpc[a] = "aborted"
        /\ wlog[b] = "connected"
        /\ b \in DOMAIN clients

\* C14: establish fails whenever its write or its read transferred fewer
\* bytes than the width of the public value; it returns no channel whose key
\* was made of a partly read value.
C14_ShortExchangeFails ==
    call.fn = "establish" =>
        LET w == call.in[1]
            r == call.in[2]
        IN /\ (w.err \/ r.err \/ w.n < 16 \/ r.n < 16) => ~ call.out.ok
           /\ call.out.ok => call.out.got = 16

\* C15: a payload no longer than the frame sent through one channel and
\* received through a channel with the same secret arrives as the payload
\* without its trailing whitespace, leading whitespace kept.
C15_RoundTripTrimsTrailingOnly ==
    call.fn = "sendrecv" => call.out = <<TrimEnd(call.in[2])>>

\* C16: the secret the server derives from the client's public value and
\* its own scalar equals the one the client derives from the server's
\* public value and its own scalar, for every pair of scalars.
C16_HandshakeSymmetry ==
    call.fn = "handshake" => call.out[1] = call.out[2]

\* two different scalars were exchanged and the secret is not a trivial one
C16_Witness ==
    /\ call.fn = "handshake"
    /\ call.in[1] # call.in[2]
    /\ call.out[1] \notin {0, 1}
    /\ GenerateKeys(call.in[1]).pub # GenerateKeys(call.in[2]).pub

\* C17: a Text from an Unnamed session whose payload no session holds as
\* username makes that session Named with exactly the payload, also when
\* the payload starts with '/' (its socket is not shut down, no reply is
\* made); nothing is sent and no other session changes.
C17_FreeUsernameAccepted ==
    (/\ last.kind = "Text"
     /\ last.addr \in DOMAIN prev
     /\ prev[last.addr] = <<>>
     /\ ~ \E c \in DOMAIN prev : prev[c] = <<last.text>>)
        => /\ DOMAIN clients = DOMAIN prev
           /\ \A c \in DOMAIN prev :
                clients[c] = IF c = last.addr THEN <<last.text>> ELSE prev[c]
           /\ sent = <<>>
           /\ sock[last.addr] = "open"
           /\ ~ quitPending[last.addr]

\* an Unnamed session proposed "/quit" and now holds it as its username,
\* while another session holds another username
C17_Witness ==
    /\ last.kind = "Text"
    /\ last.addr \in DOMAIN prev
    /\ prev[last.addr] = <<>>
    /\ last.text = <<"/", "q", "u", "i", "t">>
    /\ clients[last.addr] = <<last.text>>
    /\ \E c \in (DOMAIN clients) \ {last.addr} : clients[c] \notin {<<>>, <<last.text>>}

\* The Text events of the frames of fs that are valid UTF-8, in their order
RECURSIVE TextsOfValid(_, _)
TextsOfValid(a, fs) ==
    IF fs = <<>> THEN <<>>
    ELSE (IF Head(fs).utf8
          THEN <<[addr |-> a, kind |-> "Text", text |-> TrimEnd(TrimStart(Head(fs).text))]>>
          ELSE <<>>) \o TextsOfValid(a, Tail(fs))

\* C18: a frame that does not decode as text makes recv return None, not
\* an error, and the worker emits nothing for it and reads on: the events
\* of a sequence of frames are the Text events of its valid frames, in
\* order, with no Disconnected among them.
C18_UndecodableFrameSwallowed ==
    /\ Decode(BadFrame) = <<>>
    /\ call.fn = "loop" => call.out = TextsOfValid(call.in[1], call.in[2])

\* the loop read a valid frame, an undecodable one and a valid one again,
\* and emitted the two texts
C18_Witness ==
    /\ call.fn = "loop"
    /\ Len(call.in[2]) = 3
    /\ call.in[2][1].utf8
    /\ ~ call.in[2][2].utf8
    /\ call.in[2][3].utf8
    /\ Len(call.out) = 2
    /\ call.out[1].text # call.out[2].text

\* C19: no two registered sessions hold the same username, and the
\* username of a Named session is the same after every handling that
\* leaves the session registered.
C19_UsernamesUniqueAndStable ==
    /\ \A a, b \in DOMAIN clients :
            (a # b /\ clients[a] # <<>>) => clients[a] # clients[b]
    /\ \A a \in (DOMAIN prev) \cap (DOMAIN clients) :
            prev[a] # <<>> => clients[a] = prev[a]

\* a third session proposed a username that one of two Named sessions
\* holds, and the three sessions are registered
C19_Witness ==
    /\ last.kind = "Text"
    /\ last.addr \in DOMAIN clients
    /\ clients[last.addr] = <<>>
    /\ \E a, b \in (DOMAIN clients) \ {last.addr} :
        /\ a # b
        /\ clients[a] = <<last.text>>
        /\ clients[b] # <<>>

\* C20: the assertions of the coordinator never fail: it is handed a Text
\* only for a registered address, so the `expect` of the Text arm and the
\* unwraps of handle_chat_msg never panic.
C20_CoordinatorNeverPanics == ~ crashed

====
